---- MODULE Spec2Model ----
(***************************************************************************)
(* Model of bwt_svg/bwt.py: the BwtSuite constructor, the helper array     *)
(* functions it calls, and BwtSuite.find_mums.                             *)
(*                                                                         *)
(* Python lists and strings are modelled as functions with domain          *)
(* 0..len-1, so every index in the model is the index of the source.       *)
(* Characters are their code points: '!' 33, '#' 35, '$' 36, 'a' 97, ...   *)
(***************************************************************************)
EXTENDS Integers, FiniteSets, Sequences, TLC

VARIABLES t, self, exc, mums, calls, gap_lcps, gap_ret

vars == <<t, self, exc, mums, calls, gap_lcps, gap_ret>>

(***************************************************************************)
(* Bounds of the exploration.                                              *)
(***************************************************************************)
MaxLen == 6

MaxCalls == 2

MaxGap == 5

MaxLcp == 3

(***************************************************************************)
(* Python list / string primitives.                                        *)
(***************************************************************************)
Len0(a) == Cardinality(DOMAIN a)

List(s) == [i \in 0..(Len(s) - 1) |-> s[i + 1]]

Empty == List(<< >>)

\* a[lo:hi] for 0 <= lo, 0 <= hi (the bounds are clamped to the length)
Slice(a, lo, hi) ==
    LET h == IF hi < Len0(a) THEN hi ELSE Len0(a)
        l == IF lo < h THEN lo ELSE h
    IN  [i \in 0..(h - l - 1) |-> a[l + i]]

\* a + b
Concat(a, b) ==
    [i \in 0..(Len0(a) + Len0(b) - 1) |->
        IF i < Len0(a) THEN a[i] ELSE b[i - Len0(a)]]

\* a.append(x)
Append0(a, x) == Concat(a, [i \in 0..0 |-> x])

\* a[::-1]
Reverse(a) == [i \in 0..(Len0(a) - 1) |-> a[Len0(a) - 1 - i]]

\* set(a)
Elems(a) == {a[i] : i \in DOMAIN a}

\* min(a) of a non-empty list or string; on an empty one Python raises
\* ValueError, which the callers model before they evaluate Min
Min(a) == CHOOSE m \in Elems(a) : \A x \in Elems(a) : m <= x

\* x or n
Or(x, n) == IF x = 0 THEN n ELSE x

\* s1 < s2 on strings: the first differing character decides, a proper
\* prefix is smaller
StrLess(s1, s2) ==
    LET m == IF Len0(s1) < Len0(s2) THEN Len0(s1) ELSE Len0(s2)
        D == {k \in 0..(m - 1) : s1[k] # s2[k]}
    IN  IF D = {} THEN Len0(s1) < Len0(s2)
        ELSE LET k == CHOOSE k \in D : \A j \in D : k <= j
             IN  s1[k] < s2[k]

\* (s1, i1) < (s2, i2) on (string, int) tuples
StrTupLess(p, q) ==
    IF p[1] = q[1] THEN p[2] < q[2] ELSE StrLess(p[1], q[1])

\* (a1, b1) < (a2, b2) on (int, int) tuples
IntTupLess(p, q) ==
    IF p[1] = q[1] THEN p[2] < q[2] ELSE p[1] < q[1]

\* sorted(a) of a list of (string, int) tuples that are pairwise distinct:
\* the element with r smaller elements comes at offset r
SortedStrTups(a) ==
    [r \in DOMAIN a |->
        a[CHOOSE i \in DOMAIN a :
            Cardinality({j \in DOMAIN a : StrTupLess(a[j], a[i])}) = r]]

\* a.sort() of a list of (int, int) tuples that are pairwise distinct
SortedIntTups(a) ==
    [r \in DOMAIN a |->
        a[CHOOSE i \in DOMAIN a :
            Cardinality({j \in DOMAIN a : IntTupLess(a[j], a[i])}) = r]]

(***************************************************************************)
(* Module-level functions of bwt.py.                                       *)
(***************************************************************************)

\* lf_fl_from_sa_isa stepping to the following text position, sa[i] + 1
lf_fl_following(sa, isa) ==
    LET n == Len0(sa)
        lf_pair == [i \in 0..(n - 1) |-> <<isa[(sa[i] + 1) % n], i>>]
        sorted_pair == SortedIntTups(lf_pair)
    IN  [lf |-> [i \in 0..(n - 1) |-> lf_pair[i][1]],
         fl |-> [i \in 0..(n - 1) |-> sorted_pair[i][2]]]

\* lf_fl_from_sa_isa without lf_pair.sort()
lf_fl_unsorted(sa, isa) ==
    LET n == Len0(sa)
        lf_pair == [i \in 0..(n - 1) |-> <<isa[Or(sa[i], n) - 1], i>>]
    IN  [lf |-> [i \in 0..(n - 1) |-> lf_pair[i][1]],
         fl |-> [i \in 0..(n - 1) |-> lf_pair[i][2]]]

\* lf_fl_from_sa_isa(sa, isa): the pair (lf, fl)
lf_fl_from_sa_isa(sa, isa) ==
    LET n == Len0(sa)
        lf_pair == [i \in 0..(n - 1) |-> <<isa[Or(sa[i], n) - 1], i>>]
        sorted_pair == SortedIntTups(lf_pair)
    IN  [lf |-> [i \in 0..(n - 1) |-> lf_pair[i][1]],
         fl |-> [i \in 0..(n - 1) |-> sorted_pair[i][2]]]

RECURSIVE lcp_scan(_, _, _, _)
\* the while loop of _lcp, entered with the current lcp_len
lcp_scan(text, i, j, lcp_len) ==
    IF /\ i + lcp_len < Len0(text)
       /\ j + lcp_len < Len0(text)
       /\ text[i + lcp_len] = text[j + lcp_len]
    THEN lcp_scan(text, i, j, lcp_len + 1)
    ELSE lcp_len

\* lcp_from_t_sa with _lcp testing the first character only (if for while)
lcp_from_t_sa_first_char(text, sa) ==
    [i \in 0..(Len0(sa) - 1) |->
        IF i = 0 THEN 0
        ELSE IF text[sa[i - 1]] = text[sa[i]] THEN 1 ELSE 0]

\* lcp_from_t_sa(t, sa)
lcp_from_t_sa(text, sa) ==
    [i \in 0..(Len0(sa) - 1) |->
        IF i = 0 THEN 0 ELSE lcp_scan(text, sa[i - 1], sa[i], 0)]

RECURSIVE lcs_scan(_, _, _)
\* the while loop of _lcs, entered with the current lcs_len
lcs_scan(s1, s2, lcs_len) ==
    LET len_i == Len0(s1)
        len_j == Len0(s2)
    IN  IF /\ lcs_len < len_i
           /\ lcs_len < len_j
           /\ s1[len_i - lcs_len - 1] = s2[len_j - lcs_len - 1]
        THEN lcs_scan(s1, s2, lcs_len + 1)
        ELSE lcs_len

\* lcs_from_bwm with _lcs comparing s1[lcs_len] and s2[lcs_len], from the
\* front
lcs_from_bwm_from_front(bwm) ==
    [i \in 0..(Len0(bwm) - 1) |->
        IF i = 0 THEN 0
        ELSE LET s1 == bwm[i - 1]
                 s2 == bwm[i]
                 D == {k \in DOMAIN s1 \cap DOMAIN s2 : s1[k] # s2[k]}
             IN  IF D = {} THEN Cardinality(DOMAIN s1 \cap DOMAIN s2)
                 ELSE CHOOSE k \in D : \A j \in D : k <= j]

\* lcs_from_bwm(bwm)
lcs_from_bwm(bwm) ==
    [i \in 0..(Len0(bwm) - 1) |->
        IF i = 0 THEN 0 ELSE lcs_scan(bwm[i - 1], bwm[i], 0)]

\* invert writing inverted[i] = s
invert_copy(array) ==
    [i \in 0..(Len0(array) - 1) |-> array[i]]

\* invert(array): inverted[s] = i for every (i, s) in order, so the last
\* write to an offset stays; offsets never written keep 0
invert(array) ==
    [s \in 0..(Len0(array) - 1) |->
        LET W == {i \in DOMAIN array : array[i] = s}
        IN  IF W = {} THEN 0 ELSE CHOOSE i \in W : \A k \in W : k <= i]

\* permute writing result[order[i]] = array[i]
permute_scatter(array, order) ==
    [j \in 0..(Len0(array) - 1) |->
        array[CHOOSE i \in DOMAIN order : order[i] = j]]

\* permute(array, order)
permute(array, order) ==
    [i \in 0..(Len0(array) - 1) |-> array[order[i]]]

\* the running minimum built by the first two loops of thresholds_in_gap
cum_min(lcps) ==
    LET cm[i \in DOMAIN lcps] ==
            IF i = 0 THEN lcps[0]
            ELSE IF cm[i - 1] < lcps[i] THEN cm[i - 1] ELSE lcps[i]
    IN  cm

RECURSIVE rl_compress(_, _, _, _, _)
\* the run-length loop of thresholds_in_gap over thresholds[k:], with the
\* current prev and count
rl_compress(thresholds, k, prev, count, rl) ==
    IF k >= Len0(thresholds) THEN Append0(rl, <<prev, count>>)
    ELSE IF thresholds[k] = prev
         THEN rl_compress(thresholds, k + 1, prev, count + 1, rl)
         ELSE rl_compress(thresholds, k + 1, thresholds[k], 1,
                          Append0(rl, <<prev, count>>))

\* thresholds_in_gap with 'v' and '^' exchanged
thresholds_in_gap_swapped(lcps) ==
    LET cum_min_fw == cum_min(lcps)
        cum_min_bw == cum_min(Reverse(lcps))
        bw_rev == Reverse(cum_min_bw)
        thresholds == [i \in DOMAIN lcps |->
                         IF cum_min_fw[i] = bw_rev[i] THEN "="
                         ELSE IF cum_min_fw[i] < bw_rev[i] THEN "^" ELSE "v"]
        rlthresholds == IF Len0(thresholds) > 0
                        THEN rl_compress(thresholds, 1, thresholds[0], 1, Empty)
                        ELSE Empty
    IN  [thresh |-> Slice(thresholds, 0, Len0(thresholds) - 1),
         rl |-> rlthresholds,
         passed |-> Len0(rlthresholds) <= 3]

\* thresholds_in_gap returning thresholds for thresholds[:-1]
thresholds_in_gap_untrimmed(lcps) ==
    LET cum_min_fw == cum_min(lcps)
        cum_min_bw == cum_min(Reverse(lcps))
        bw_rev == Reverse(cum_min_bw)
        thresholds == [i \in DOMAIN lcps |->
                         IF cum_min_fw[i] = bw_rev[i] THEN "="
                         ELSE IF cum_min_fw[i] < bw_rev[i] THEN "v" ELSE "^"]
        rlthresholds == IF Len0(thresholds) > 0
                        THEN rl_compress(thresholds, 1, thresholds[0], 1, Empty)
                        ELSE Empty
    IN  [thresh |-> thresholds,
         rl |-> rlthresholds,
         passed |-> Len0(rlthresholds) <= 3]

\* thresholds_in_gap appending lcp to cum_min_fw without taking the minimum
thresholds_in_gap_fw_raw(lcps) ==
    LET cum_min_fw == lcps
        cum_min_bw == cum_min(Reverse(lcps))
        bw_rev == Reverse(cum_min_bw)
        thresholds == [i \in DOMAIN lcps |->
                         IF cum_min_fw[i] = bw_rev[i] THEN "="
                         ELSE IF cum_min_fw[i] < bw_rev[i] THEN "v" ELSE "^"]
        rlthresholds == IF Len0(thresholds) > 0
                        THEN rl_compress(thresholds, 1, thresholds[0], 1, Empty)
                        ELSE Empty
    IN  [thresh |-> Slice(thresholds, 0, Len0(thresholds) - 1),
         rl |-> rlthresholds,
         passed |-> Len0(rlthresholds) <= 3]

\* thresholds_in_gap(lcps): the returned pair, and whether the assertion
\* len(rlthresholds) <= 3 passed
thresholds_in_gap(lcps) ==
    LET cum_min_fw == cum_min(lcps)
        cum_min_bw == cum_min(Reverse(lcps))
        bw_rev == Reverse(cum_min_bw)
        thresholds == [i \in DOMAIN lcps |->
                         IF cum_min_fw[i] = bw_rev[i] THEN "="
                         ELSE IF cum_min_fw[i] < bw_rev[i] THEN "v" ELSE "^"]
        rlthresholds == IF Len0(thresholds) > 0
                        THEN rl_compress(thresholds, 1, thresholds[0], 1, Empty)
                        ELSE Empty
    IN  [thresh |-> Slice(thresholds, 0, Len0(thresholds) - 1),
         rl |-> rlthresholds,
         passed |-> Len0(rlthresholds) <= 3]

(***************************************************************************)
(* class BwtSuite.                                                         *)
(***************************************************************************)

\* no object
None == [built |-> FALSE]

\* line 104 with <= for <
precondition_non_strict(text) ==
    IF Len0(text) = 0 THEN "IndexError"
    ELSE LET rest == Slice(text, 0, Len0(text) - 1)
         IN  IF Len0(rest) = 0 THEN "ValueError"
             ELSE IF text[Len0(text) - 1] <= Min(rest) THEN "none"
                  ELSE "AssertionError"

\* the exception raised by line 104, assert t[-1] < min(t[:-1]), or "none":
\* t[-1] of an empty text raises IndexError, min of an empty t[:-1] raises
\* ValueError, a false comparison raises AssertionError
precondition(text) ==
    IF Len0(text) = 0 THEN "IndexError"
    ELSE LET rest == Slice(text, 0, Len0(text) - 1)
         IN  IF Len0(rest) = 0 THEN "ValueError"
             ELSE IF text[Len0(text) - 1] < Min(rest) THEN "none"
                  ELSE "AssertionError"

\* _compute_sa with sorted(..., reverse=True)
compute_sa_descending(text) ==
    LET n == Len0(text)
        satups == SortedStrTups([i \in 0..(n - 1) |-> <<Slice(text, i, n), i>>])
    IN  [i \in 0..(n - 1) |-> satups[n - 1 - i][2]]

\* _compute_sa sorting (t[i], i) for (t[i:], i)
compute_sa_by_first_char(text) ==
    LET n == Len0(text)
        satups == SortedIntTups([i \in 0..(n - 1) |-> <<text[i], i>>])
    IN  [i \in 0..(n - 1) |-> satups[i][2]]

\* BwtSuite._compute_sa
compute_sa(text) ==
    LET n == Len0(text)
        satups == SortedStrTups([i \in 0..(n - 1) |-> <<Slice(text, i, n), i>>])
    IN  [i \in 0..(n - 1) |-> satups[i][2]]

\* char == '$'
is_dollar(char) == char = 36

\* char in ('$', '#')
is_terminator(char) == char \in {36, 35}

RECURSIVE da_loop_increment_first(_, _, _, _, _)
\* the loop of _compute_da with doc_id += 1 before the assignment
da_loop_increment_first(text, isa, i, da, doc_id) ==
    IF i >= Len0(text) THEN [da |-> da, num_docs |-> doc_id]
    ELSE IF is_terminator(text[i])
         THEN da_loop_increment_first(text, isa, i + 1,
                                      [da EXCEPT ![isa[i]] = doc_id + 1], doc_id + 1)
         ELSE da_loop_increment_first(text, isa, i + 1,
                                      [da EXCEPT ![isa[i]] = doc_id], doc_id)

RECURSIVE da_loop(_, _, _, _, _)
\* the for loop of BwtSuite._compute_da over t[i:], with the current da and
\* doc_id
da_loop(text, isa, i, da, doc_id) ==
    IF i >= Len0(text) THEN [da |-> da, num_docs |-> doc_id]
    ELSE IF is_terminator(text[i])
         THEN da_loop(text, isa, i + 1, [da EXCEPT ![isa[i]] = doc_id], doc_id + 1)
         ELSE da_loop(text, isa, i + 1, [da EXCEPT ![isa[i]] = doc_id], doc_id)

\* BwtSuite._compute_da
compute_da(text, isa) ==
    da_loop(text, isa, 0, [i \in 0..(Len0(text) - 1) |-> 0], 0)

\* list(sorted(set(t)))
compute_alphabet(text) ==
    LET S == Elems(text)
    IN  [r \in 0..(Cardinality(S) - 1) |->
            CHOOSE c \in S : Cardinality({d \in S : d < c}) = r]

\* _compute_bwm_and_bwt with row = t[:i] + t[i:]
compute_bwm_and_bwt_unrotated(text, sa) ==
    LET n == Len0(text)
        bwm == [r \in 0..(Len0(sa) - 1) |->
                   Concat(Slice(text, 0, sa[r]), Slice(text, sa[r], n))]
    IN  [bwm |-> bwm,
         bwt |-> [r \in 0..(Len0(sa) - 1) |-> bwm[r][Len0(bwm[r]) - 1]]]

\* _compute_bwm_and_bwt taking row[0] for row[-1]
compute_bwm_and_bwt_first_column(text, sa) ==
    LET n == Len0(text)
        bwm == [r \in 0..(Len0(sa) - 1) |->
                   Concat(Slice(text, sa[r], n), Slice(text, 0, sa[r]))]
    IN  [bwm |-> bwm,
         bwt |-> [r \in 0..(Len0(sa) - 1) |-> bwm[r][0]]]

\* BwtSuite._compute_bwm_and_bwt
compute_bwm_and_bwt(text, sa) ==
    LET n == Len0(text)
        bwm == [r \in 0..(Len0(sa) - 1) |->
                   Concat(Slice(text, sa[r], n), Slice(text, 0, sa[r]))]
    IN  [bwm |-> bwm,
         bwt |-> [r \in 0..(Len0(sa) - 1) |-> bwm[r][Len0(bwm[r]) - 1]]]

\* self.phi staying at rank 0 instead of wrapping to rank n-1
compute_phi_no_wrap(sa, isa) ==
    LET n == Len0(sa)
    IN  [i \in 0..(n - 1) |-> sa[IF isa[i] = 0 THEN 0 ELSE isa[i] - 1]]

\* self.phi
compute_phi(sa, isa) ==
    LET n == Len0(sa)
    IN  [i \in 0..(n - 1) |-> sa[Or(isa[i], n) - 1]]

\* self.phiinv wrapping the last rank to rank n-1 for rank 0
compute_phiinv_wrap_last(sa, isa) ==
    LET n == Len0(sa)
    IN  [i \in 0..(n - 1) |-> sa[(IF isa[i] = n - 1 THEN n - 2 ELSE isa[i]) + 1]]

\* self.phiinv
compute_phiinv(sa, isa) ==
    LET n == Len0(sa)
    IN  [i \in 0..(n - 1) |-> sa[(IF isa[i] = n - 1 THEN -1 ELSE isa[i]) + 1]]

\* one iteration of the inner loop of BwtSuite._compute_thresholds for the
\* character c at BWT row i; st holds thresholds[c], before_first_c_run,
\* in_c_run, lcps and whether every thresholds_in_gap assertion passed
thresholds_step(c, bwt, lcp, i, st) ==
    IF st.before_first_c_run
    THEN IF bwt[i] = c
         THEN [st EXCEPT !.in_c_run = TRUE, !.before_first_c_run = FALSE,
                         !.out = Append0(st.out, " ")]
         ELSE [st EXCEPT !.out = Append0(st.out, "v")]
    ELSE IF st.in_c_run
         THEN IF bwt[i] # c
              THEN [st EXCEPT !.in_c_run = FALSE, !.lcps = List(<<lcp[i]>>)]
              ELSE [st EXCEPT !.out = Append0(st.out, " ")]
         ELSE IF bwt[i] = c
              THEN LET gap == thresholds_in_gap(Append0(st.lcps, lcp[i]))
                   IN  [st EXCEPT !.in_c_run = TRUE,
                                  !.out = Append0(Concat(st.out, gap.thresh), " "),
                                  !.lcps = Empty,
                                  !.passed = st.passed /\ gap.passed]
              ELSE [st EXCEPT !.lcps = Append0(st.lcps, lcp[i])]

RECURSIVE thresholds_loop_trailing_v(_, _, _, _, _)
\* the inner loop with the trailing loop appending 'v' for '^'
thresholds_loop_trailing_v(c, bwt, lcp, i, st) ==
    IF i >= Len0(bwt)
    THEN [st EXCEPT !.out = Concat(st.out, [k \in 0..(Len0(st.lcps) - 1) |-> "v"])]
    ELSE thresholds_loop_trailing_v(c, bwt, lcp, i + 1,
                                    thresholds_step(c, bwt, lcp, i, st))

RECURSIVE thresholds_loop(_, _, _, _, _)
\* the inner loop over BWT rows i.., then the trailing '^' loop
thresholds_loop(c, bwt, lcp, i, st) ==
    IF i >= Len0(bwt)
    THEN [st EXCEPT !.out = Concat(st.out, [k \in 0..(Len0(st.lcps) - 1) |-> "^"])]
    ELSE thresholds_loop(c, bwt, lcp, i + 1, thresholds_step(c, bwt, lcp, i, st))

\* BwtSuite._compute_thresholds: the dict, and whether every assertion of
\* thresholds_in_gap passed
compute_thresholds(alphabet, bwt, lcp) ==
    LET per_c == [c \in Elems(alphabet) |->
                    thresholds_loop(c, bwt, lcp, 0,
                        [out |-> Empty, before_first_c_run |-> TRUE,
                         in_c_run |-> FALSE, lcps |-> Empty, passed |-> TRUE])]
    IN  [thresholds |-> [c \in Elems(alphabet) |-> per_c[c].out],
         passed |-> \A c \in Elems(alphabet) : per_c[c].passed]

\* BwtSuite.__init__(self, t): the exception it raises or "none", and the
\* object it leaves (None when it raises)
init(text) ==
    IF precondition(text) # "none"
    THEN [exc |-> precondition(text), self |-> None]
    ELSE
    LET n == Len0(text)
        sa == compute_sa(text)
        isa == invert(sa)
        dd == compute_da(text, isa)
        alphabet == compute_alphabet(text)
        bb == compute_bwm_and_bwt(text, sa)
        lcp == lcp_from_t_sa(text, sa)
        lcs == lcs_from_bwm(bb.bwm)
        plcp == permute(lcp, isa)
        plcs == permute(lcs, isa)
        ll == lf_fl_from_sa_isa(sa, isa)
        phi == compute_phi(sa, isa)
        phiinv == compute_phiinv(sa, isa)
        th == compute_thresholds(alphabet, bb.bwt, lcp)
    IN  IF ~th.passed THEN [exc |-> "AssertionError", self |-> None]
        ELSE [exc |-> "none",
              self |-> [built |-> TRUE, t |-> text, n |-> n, sa |-> sa,
                        isa |-> isa, da |-> dd.da, num_docs |-> dd.num_docs,
                        alphabet |-> alphabet, bwm |-> bb.bwm, bwt |-> bb.bwt,
                        lcp |-> lcp, lcs |-> lcs, plcp |-> plcp, plcs |-> plcs,
                        lf |-> ll.lf, fl |-> ll.fl, phi |-> phi,
                        phiinv |-> phiinv, thresholds |-> th.thresholds]]

\* one iteration of the loop of BwtSuite.find_mums at start rank i: the
\* exception it raises, and whether it appends (i, i + num_docs)
mums_step(s, i) ==
    LET window == Slice(s.lcp, i + 1, i + s.num_docs)
    IN  IF Len0(window) = 0 THEN [exc |-> "ValueError", hit |-> FALSE]
        ELSE IF i + s.num_docs >= Len0(s.lcp) THEN [exc |-> "IndexError", hit |-> FALSE]
        ELSE LET lcp == Min(window)
                 lcp_interval == lcp > s.lcp[i] /\ lcp > s.lcp[i + s.num_docs]
                 bwt_distinct ==
                     Cardinality(Elems(Slice(s.bwt, i, i + s.num_docs))) # 1
                 da_distinct ==
                     Cardinality(Elems(Slice(s.da, i, i + s.num_docs))) = s.num_docs
             IN  [exc |-> "none",
                  hit |-> lcp_interval /\ bwt_distinct /\ da_distinct]

RECURSIVE mums_loop(_, _, _)
\* the loop of BwtSuite.find_mums over range(n - num_docs)[i:], with the
\* current mums
mums_loop(s, i, acc) ==
    IF i >= s.n - s.num_docs THEN [exc |-> "none", mums |-> acc]
    ELSE LET r == mums_step(s, i)
         IN  IF r.exc # "none" THEN [exc |-> r.exc, mums |-> Empty]
             ELSE mums_loop(s, i + 1,
                            IF r.hit THEN Append0(acc, <<i, i + s.num_docs>>)
                            ELSE acc)

\* BwtSuite.find_mums
find_mums(s) == mums_loop(s, 0, Empty)

(***************************************************************************)
(* The state machine: a caller constructs one suite from a text and then   *)
(* calls find_mums on it.                                                  *)
(***************************************************************************)

\* '!', '#', '$', 'a', 'b'
Chars == {33, 35, 36, 97, 98}

\* "gattacat$gattacgt$attcgt$#" (tests/test_bwt.py, test_gattacat_3)
Gattacat ==
    List(<<103, 97, 116, 116, 97, 99, 97, 116, 36,
           103, 97, 116, 116, 97, 99, 103, 116, 36,
           97, 116, 116, 99, 103, 116, 36, 35>>)

\* "abaaba$" (tests/test_bwt.py, test_bwt_suite_1)
Abaaba == List(<<97, 98, 97, 97, 98, 97, 36>>)

\* the texts a caller passes: every text of at most MaxLen characters over
\* Chars, and the two texts of the tests
Texts == UNION {[0..(k - 1) -> Chars] : k \in 0..MaxLen} \cup {Gattacat, Abaaba}

\* thresholds_in_gap has not been called
NotCalled == [called |-> FALSE]

Init ==
    /\ t = Empty
    /\ self = None
    /\ exc = "none"
    /\ mums = Empty
    /\ calls = 0
    /\ gap_lcps = Empty
    /\ gap_ret = NotCalled

\* BwtSuite(text), for every text the caller may pass
BwtSuite == [text \in Texts |-> init(text)]

\* suite = BwtSuite(text)
Construct ==
    /\ calls = 0
    /\ self = None
    /\ exc = "none"
    /\ \E text \in Texts :
        /\ t' = text
        /\ self' = BwtSuite[text].self
        /\ exc' = BwtSuite[text].exc
    /\ UNCHANGED <<mums, calls, gap_lcps, gap_ret>>

\* suite.find_mums() with the list mums kept between calls and appended to
FindMumsKeepingList ==
    /\ self.built
    /\ calls < MaxCalls
    /\ LET r == find_mums(self)
       IN  /\ exc' = r.exc
           /\ mums' = Concat(mums, r.mums)
    /\ calls' = calls + 1
    /\ UNCHANGED <<t, self, gap_lcps, gap_ret>>

\* suite.find_mums()
FindMums ==
    /\ self.built
    /\ calls < MaxCalls
    /\ LET r == find_mums(self)
       IN  /\ exc' = r.exc
           /\ mums' = r.mums
    /\ calls' = calls + 1
    /\ UNCHANGED <<t, self, gap_lcps, gap_ret>>

Next == Construct \/ FindMums

Spec == Init /\ [][Next]_vars

(***************************************************************************)
(* A second state machine for the module-level function thresholds_in_gap: *)
(* a caller passes it one list of LCP values.                              *)
(***************************************************************************)

\* the lists a caller passes: at most MaxGap values in 0..MaxLcp
LcpLists == UNION {[0..(k - 1) -> 0..MaxLcp] : k \in 0..MaxGap}

GapInit ==
    /\ t = Empty
    /\ self = None
    /\ exc = "none"
    /\ mums = Empty
    /\ calls = 0
    /\ gap_lcps \in LcpLists
    /\ gap_ret = NotCalled

\* thresholds_in_gap(lcps): the returned pair, or the AssertionError of
\* line 95
ThresholdsInGap ==
    /\ ~gap_ret.called
    /\ LET r == thresholds_in_gap(gap_lcps)
       IN  gap_ret' = IF r.passed
                      THEN [called |-> TRUE, exc |-> "none",
                            thresh |-> r.thresh, rl |-> r.rl]
                      ELSE [called |-> TRUE, exc |-> "AssertionError",
                            thresh |-> Empty, rl |-> Empty]
    /\ UNCHANGED <<t, self, exc, mums, calls, gap_lcps>>

GapNext == ThresholdsInGap

GapSpec == GapInit /\ [][GapNext]_vars

(***************************************************************************)
(* Vocabulary of the properties.                                           *)
(***************************************************************************)

\* a is a permutation of 0..n-1
IsPermutation(a, n) ==
    /\ DOMAIN a = 0..(n - 1)
    /\ \A v \in 0..(n - 1) : \E i \in DOMAIN a : a[i] = v

RECURSIVE LexLess(_, _, _, _)
\* text[i:] is lexicographically smaller than text[j:], compared one
\* character at a time
LexLess(text, i, j, k) ==
    IF j + k >= Len0(text) THEN FALSE
    ELSE IF i + k >= Len0(text) THEN TRUE
    ELSE IF text[i + k] # text[j + k] THEN text[i + k] < text[j + k]
    ELSE LexLess(text, i, j, k + 1)

\* the last character of text is not strictly smaller than every other one
LastNotMinimal(text) ==
    /\ Len0(text) >= 1
    /\ \E i \in 0..(Len0(text) - 2) : text[i] <= text[Len0(text) - 1]

\* a mod n for a >= -n
Mod(a, n) == (a + n) % n

\* C1: for every text the constructor accepts, sa is a permutation of
\* 0..n-1 and the suffixes t[sa[0]:], t[sa[1]:], ... are strictly ascending
C1_SaSortsSuffixes ==
    self.built =>
        /\ self.n = Len0(t)
        /\ IsPermutation(self.sa, self.n)
        /\ \A i \in 0..(self.n - 2) : LexLess(t, self.sa[i], self.sa[i + 1], 0)

\* C1 witness: a suite whose suffix array is neither the identity nor the
\* reversal, and where two suffixes share their first character
C1_Witness ==
    /\ self.built
    /\ self.n >= 4
    /\ \E i \in 0..(self.n - 2) : self.sa[i] < self.sa[i + 1]
    /\ \E i \in 0..(self.n - 2) : self.sa[i] > self.sa[i + 1]
    /\ \E i \in 0..(self.n - 2) : t[self.sa[i]] = t[self.sa[i + 1]]

\* C2: isa[sa[i]] = i for every rank i and sa[isa[j]] = j for every text
\* position j
C2_IsaInvertsSa ==
    self.built =>
        /\ DOMAIN self.isa = 0..(self.n - 1)
        /\ \A i \in 0..(self.n - 1) : self.isa[self.sa[i]] = i
        /\ \A j \in 0..(self.n - 1) : self.sa[self.isa[j]] = j

\* C2 witness: a suite whose suffix array is not its own inverse
C2_Witness ==
    /\ self.built
    /\ \E i \in 0..(self.n - 1) : self.sa[self.sa[i]] # i

\* C3: bwt[i] = t[(sa[i] - 1) mod n] for every rank i
C3_BwtFromSa ==
    self.built =>
        /\ DOMAIN self.bwt = 0..(self.n - 1)
        /\ \A i \in 0..(self.n - 1) : self.bwt[i] = t[Mod(self.sa[i] - 1, self.n)]

\* C3 witness: a suite of a text with at least three distinct characters,
\* where the rank of the whole text (sa[i] = 0, the wrap) is not rank 0
C3_Witness ==
    /\ self.built
    /\ Cardinality(Elems(t)) >= 3
    /\ \E i \in 1..(self.n - 1) : self.sa[i] = 0

\* C4: lf and fl are permutations of 0..n-1 with fl[lf[i]] = i and
\* lf[fl[i]] = i for every rank i
C4_LfFlInverse ==
    self.built =>
        /\ IsPermutation(self.lf, self.n)
        /\ IsPermutation(self.fl, self.n)
        /\ \A i \in 0..(self.n - 1) : self.fl[self.lf[i]] = i
        /\ \A i \in 0..(self.n - 1) : self.lf[self.fl[i]] = i

\* C4 witness: a suite whose lf is not its own inverse
C4_Witness ==
    /\ self.built
    /\ \E i \in 0..(self.n - 1) : self.lf[self.lf[i]] # i

\* C5: plcp[j] = lcp[isa[j]] and plcs[j] = lcs[isa[j]] for every text
\* position j
C5_PermutedLcpLcs ==
    self.built =>
        /\ DOMAIN self.plcp = 0..(self.n - 1)
        /\ DOMAIN self.plcs = 0..(self.n - 1)
        /\ \A j \in 0..(self.n - 1) :
            /\ self.plcp[j] = self.lcp[self.isa[j]]
            /\ self.plcs[j] = self.lcs[self.isa[j]]

\* C5 witness: a suite with a non-zero lcp and a non-zero lcs whose
\* permuted arrays differ from the rank-ordered ones
C5_Witness ==
    /\ self.built
    /\ self.plcp # self.lcp
    /\ self.plcs # self.lcs
    /\ \E i \in 0..(self.n - 1) : self.lcp[i] > 0
    /\ \E i \in 0..(self.n - 1) : self.lcs[i] > 0

\* C6: phiinv[phi[j]] = j and phi[phiinv[j]] = j for every text position j,
\* the positions of rank 0 and of rank n-1 included
C6_PhiPhiinvInverse ==
    self.built =>
        /\ DOMAIN self.phi = 0..(self.n - 1)
        /\ DOMAIN self.phiinv = 0..(self.n - 1)
        /\ \A j \in 0..(self.n - 1) :
            /\ self.phiinv[self.phi[j]] = j
            /\ self.phi[self.phiinv[j]] = j

\* C6 witness: a suite of at least three characters, where the wraparound
\* joins the position of rank n-1 to the position of rank 0
C6_Witness ==
    /\ self.built
    /\ self.n >= 3
    /\ self.phi[self.sa[0]] = self.sa[self.n - 1]
    /\ self.phiinv[self.sa[self.n - 1]] = self.sa[0]

\* C7: when the last character of the text is not strictly smaller than
\* every other character, the constructor raises AssertionError and leaves
\* no object and no derived array
C7_PreconditionAsserted ==
    LastNotMinimal(t) => (exc = "AssertionError" /\ self = None)

\* C7 witness: the constructor has rejected a text whose minimal character
\* is its last character and also occurs earlier
C7_Witness ==
    /\ Len0(t) >= 3
    /\ \E i \in 0..(Len0(t) - 2) : t[i] = t[Len0(t) - 1]
    /\ \A i \in 0..(Len0(t) - 2) : t[i] >= t[Len0(t) - 1]
    /\ exc = "AssertionError"
    /\ self = None

\* the constructor has run
Constructed == exc # "none" \/ self.built

\* C8: the constructor accepts a text of one character and yields sa = [0],
\* bwt = that character, lcp = [0], lcs = [0], and find_mums returns no MUM
C8_SingleCharacterText ==
    (Len0(t) = 1 /\ Constructed) =>
        /\ self.built
        /\ self.sa = List(<<0>>)
        /\ self.bwt = t
        /\ self.lcp = List(<<0>>)
        /\ self.lcs = List(<<0>>)
        /\ (calls > 0 => (exc = "none" /\ mums = Empty))

\* C9: for "gattacat$gattacgt$attcgt$#" num_docs is 3 and every range
\* returned by find_mums has width 3
C9_GattacatThreeDocuments ==
    (t = Gattacat /\ Constructed) =>
        /\ self.built
        /\ self.num_docs = 3
        /\ (calls > 0 =>
               /\ exc = "none"
               /\ \A k \in DOMAIN mums : mums[k][2] - mums[k][1] = 3)

\* C10: on a suite with num_docs >= 2, every range (start, end) returned by
\* find_mums has end - start = num_docs, every lcp strictly inside it
\* exceeds lcp[start] and lcp[end], its bwt characters are not all equal,
\* and its da values hold every document id 0..num_docs-1 exactly once
C10_MumRangeConditions ==
    (self.built /\ self.num_docs >= 2 /\ calls > 0 /\ exc = "none") =>
        \A k \in DOMAIN mums :
            LET start == mums[k][1]
                end == mums[k][2]
            IN  /\ end - start = self.num_docs
                /\ \A x \in (start + 1)..(end - 1) :
                    /\ self.lcp[x] > self.lcp[start]
                    /\ self.lcp[x] > self.lcp[end]
                /\ \E x, y \in start..(end - 1) : self.bwt[x] # self.bwt[y]
                /\ \A x, y \in start..(end - 1) :
                    x # y => self.da[x] # self.da[y]
                /\ \A d \in 0..(self.num_docs - 1) :
                    Cardinality({x \in start..(end - 1) : self.da[x] = d}) = 1

\* C11: the assertion len(rlthresholds) <= 3 of thresholds_in_gap passes for
\* every list of non-negative LCP values: the call returns, and its
\* run-length summary has at most 3 runs that add up to the list's length
C11_AtMostThreeRuns ==
    gap_ret.called =>
        /\ gap_ret.exc = "none"
        /\ Len0(gap_ret.rl) <= 3
        /\ \A k \in DOMAIN gap_ret.rl : gap_ret.rl[k][2] >= 1
        /\ (Len0(gap_ret.rl) = 0 => Len0(gap_lcps) = 0)
        /\ (Len0(gap_ret.rl) = 1 => gap_ret.rl[0][2] = Len0(gap_lcps))
        /\ (Len0(gap_ret.rl) = 2 => gap_ret.rl[0][2] + gap_ret.rl[1][2] = Len0(gap_lcps))
        /\ (Len0(gap_ret.rl) = 3 =>
               gap_ret.rl[0][2] + gap_ret.rl[1][2] + gap_ret.rl[2][2] = Len0(gap_lcps))

\* C11 witness: a call whose summary has exactly 3 runs
C11_Witness ==
    /\ gap_ret.called
    /\ gap_ret.exc = "none"
    /\ Len0(gap_ret.rl) = 3

\* C12: lf[i] = isa[(sa[i] - 1) mod n] and sa[lf[i]] = (sa[i] - 1) mod n for
\* every rank i, so the suffix at rank lf[i] starts with bwt[i]
C12_LfFormula ==
    self.built =>
        \A i \in 0..(self.n - 1) :
            /\ self.lf[i] = self.isa[Mod(self.sa[i] - 1, self.n)]
            /\ self.sa[self.lf[i]] = Mod(self.sa[i] - 1, self.n)
            /\ t[self.sa[self.lf[i]]] = self.bwt[i]

\* C12 witness: a suite of at least four characters where lf is not the
\* identity and the rank of the whole text maps to rank 0 (the wrap)
C12_Witness ==
    /\ self.built
    /\ self.n >= 4
    /\ \E i \in 1..(self.n - 1) : self.sa[i] = 0 /\ self.lf[i] = 0
    /\ \E i \in 0..(self.n - 1) : self.lf[i] # i

\* C13: phi[j] = sa[(isa[j] - 1) mod n] and phiinv[j] = sa[(isa[j] + 1) mod n]
\* for every text position j; phi of the position of rank 0 is sa[n-1] and
\* phiinv of the position of rank n-1 is sa[0]
C13_PhiFormulas ==
    self.built =>
        /\ \A j \in 0..(self.n - 1) :
            /\ self.phi[j] = self.sa[Mod(self.isa[j] - 1, self.n)]
            /\ self.phiinv[j] = self.sa[Mod(self.isa[j] + 1, self.n)]
        /\ self.phi[self.sa[0]] = self.sa[self.n - 1]
        /\ self.phiinv[self.sa[self.n - 1]] = self.sa[0]

\* C13 witness: a suite of at least four characters, so that phi and phiinv
\* differ, with the two wraparound values in place
C13_Witness ==
    /\ self.built
    /\ self.n >= 4
    /\ self.phi # self.phiinv
    /\ self.phi[self.sa[0]] = self.sa[self.n - 1]
    /\ self.phiinv[self.sa[self.n - 1]] = self.sa[0]

\* the length of the longest common prefix of text[a:] and text[b:], neither
\* read past the end of text
CommonPrefixLen(text, a, b) ==
    LET n == Len0(text)
        Agree(k) == /\ a + k <= n
                    /\ b + k <= n
                    /\ \A x \in 0..(k - 1) : text[a + x] = text[b + x]
    IN  CHOOSE k \in 0..n : Agree(k) /\ ~Agree(k + 1)

\* the cyclic rotation of text that starts at offset s
Rotation(text, s) ==
    [k \in 0..(Len0(text) - 1) |-> text[(s + k) % Len0(text)]]

\* the length of the longest common suffix of two rows of n characters
CommonSuffixLen(r1, r2, n) ==
    LET Agree(k) == /\ k <= n
                    /\ \A x \in 0..(k - 1) : r1[n - 1 - x] = r2[n - 1 - x]
    IN  CHOOSE k \in 0..n : Agree(k) /\ ~Agree(k + 1)

\* row r1 is lexicographically smaller than row r2, both of n characters
RowLess(r1, r2, n) ==
    \E k \in 0..(n - 1) :
        /\ r1[k] < r2[k]
        /\ \A x \in 0..(k - 1) : r1[x] = r2[x]

\* C14: lcp[0] = 0 and, for every rank i >= 1, lcp[i] is the length of the
\* longest common prefix of t[sa[i-1]:] and t[sa[i]:], compared up to the
\* end of the text without wrapping
C14_LcpIsCommonPrefix ==
    self.built =>
        /\ DOMAIN self.lcp = 0..(self.n - 1)
        /\ self.lcp[0] = 0
        /\ \A i \in 1..(self.n - 1) :
            self.lcp[i] = CommonPrefixLen(t, self.sa[i - 1], self.sa[i])

\* C14 witness: a suite with two adjacent suffixes that share at least two
\* characters
C14_Witness ==
    /\ self.built
    /\ \E i \in 1..(self.n - 1) : self.lcp[i] >= 2

\* C15: lcs[0] = 0 and, for every rank i >= 1, lcs[i] is the length of the
\* longest common suffix of the rotations of t at sa[i-1] and sa[i], which
\* is below n
C15_LcsIsCommonSuffix ==
    self.built =>
        /\ DOMAIN self.lcs = 0..(self.n - 1)
        /\ self.lcs[0] = 0
        /\ \A i \in 1..(self.n - 1) :
            /\ self.lcs[i] = CommonSuffixLen(Rotation(t, self.sa[i - 1]),
                                             Rotation(t, self.sa[i]), self.n)
            /\ self.lcs[i] >= 0
            /\ self.lcs[i] < self.n

\* C15 witness: a suite with two adjacent rows that end in the same two
\* characters or more
C15_Witness ==
    /\ self.built
    /\ \E i \in 1..(self.n - 1) : self.lcs[i] >= 2

\* C16: bwm has n rows, row i is the rotation t[sa[i]:] + t[:sa[i]], and
\* the rows are strictly ascending
C16_BwmSortedRotations ==
    self.built =>
        /\ DOMAIN self.bwm = 0..(self.n - 1)
        /\ \A i \in 0..(self.n - 1) : self.bwm[i] = Rotation(t, self.sa[i])
        /\ \A i \in 0..(self.n - 2) :
            RowLess(self.bwm[i], self.bwm[i + 1], self.n)

\* C16 witness: a suite of at least four characters with two adjacent rows
\* that start with the same character
C16_Witness ==
    /\ self.built
    /\ self.n >= 4
    /\ \E i \in 0..(self.n - 2) : self.bwm[i][0] = self.bwm[i + 1][0]

\* the positions of text that hold '$' or '#'
TerminatorPositions(text) == {p \in DOMAIN text : text[p] = 36 \/ text[p] = 35}

\* the number of terminators of text at positions below p
TerminatorsBefore(text, p) ==
    Cardinality({q \in TerminatorPositions(text) : q < p})

\* C17: num_docs is the number of '$' and '#' characters of t, and for every
\* position p that holds another character, da[isa[p]] is the number of
\* terminators before p
C17_DaCountsTerminators ==
    self.built =>
        /\ DOMAIN self.da = 0..(self.n - 1)
        /\ self.num_docs = Cardinality(TerminatorPositions(t))
        /\ \A p \in (DOMAIN t) \ TerminatorPositions(t) :
            self.da[self.isa[p]] = TerminatorsBefore(t, p)

\* C17 witness: a suite of a text that holds both '$' and '#' and a
\* non-terminator character after two terminators
C17_Witness ==
    /\ self.built
    /\ \E p, q \in TerminatorPositions(t) : t[p] = 36 /\ t[q] = 35
    /\ \E p \in (DOMAIN t) \ TerminatorPositions(t) :
        self.da[self.isa[p]] = 2

\* C18 as stated: for every terminator position p, da[isa[p]] is the number
\* of terminators at positions <= p (the document the terminator begins)
C18_TerminatorBeginsDocument ==
    self.built =>
        \A p \in TerminatorPositions(t) :
            self.da[self.isa[p]] = TerminatorsBefore(t, p) + 1

\* C18 amended: for every terminator position p, da[isa[p]] is the number
\* of terminators at positions < p (the document the terminator ends)
C18_TerminatorEndsDocument ==
    self.built =>
        \A p \in TerminatorPositions(t) :
            self.da[self.isa[p]] = TerminatorsBefore(t, p)

\* C18 witness: a suite of a text with at least two terminators, the
\* second one with document id 1
C18_Witness ==
    /\ self.built
    /\ \E p, q \in TerminatorPositions(t) :
        /\ p < q
        /\ self.da[self.isa[p]] = 0
        /\ self.da[self.isa[q]] = 1

\* C20: for "abaaba$" the constructor yields the arrays of test_bwt_suite_1
C20_AbaabaArrays ==
    (t = Abaaba /\ Constructed) =>
        /\ self.built
        /\ self.sa = List(<<6, 5, 2, 3, 0, 4, 1>>)
        /\ self.isa = List(<<4, 6, 2, 3, 5, 1, 0>>)
        /\ self.bwt = List(<<97, 98, 98, 97, 36, 97, 97>>)
        /\ self.lcp = List(<<0, 0, 1, 1, 3, 0, 2>>)
        /\ self.lf = List(<<1, 5, 6, 2, 0, 3, 4>>)
        /\ self.fl = List(<<4, 0, 3, 5, 6, 1, 2>>)
        /\ self.phi = List(<<3, 4, 5, 2, 0, 6, 1>>)
        /\ self.phiinv = List(<<4, 6, 3, 0, 1, 2, 5>>)
        /\ self.bwm = List(<<List(<<36, 97, 98, 97, 97, 98, 97>>),
                              List(<<97, 36, 97, 98, 97, 97, 98>>),
                              List(<<97, 97, 98, 97, 36, 97, 98>>),
                              List(<<97, 98, 97, 36, 97, 98, 97>>),
                              List(<<97, 98, 97, 97, 98, 97, 36>>),
                              List(<<98, 97, 36, 97, 98, 97, 97>>),
                              List(<<98, 97, 97, 98, 97, 36, 97>>)>>)

\* C20 witness: the suite of "abaaba$" has been constructed
C20_Witness ==
    /\ t = Abaaba
    /\ self.built
    /\ self.n = 7

\* the window of s.num_docs ranks that starts at rank i is a maximal unique
\* match: every lcp strictly inside it exceeds the lcp at its start and, when
\* a rank follows the window, the lcp of that rank; its bwt characters are
\* not all equal; its da values are num_docs distinct values
IsMumWindow(s, i) ==
    LET last == i + s.num_docs - 1
    IN  /\ \A x \in (i + 1)..last :
            /\ s.lcp[x] > s.lcp[i]
            /\ (last + 1 < s.n => s.lcp[x] > s.lcp[last + 1])
        /\ \E x, y \in i..last : s.bwt[x] # s.bwt[y]
        /\ Cardinality({s.da[x] : x \in i..last}) = s.num_docs

\* C21: on a suite with num_docs >= 2, find_mums reports every start rank i
\* in 0..n-num_docs whose window is a maximal unique match, the window that
\* ends at the last rank included
C21_EveryMumWindowReported ==
    (self.built /\ self.num_docs >= 2 /\ calls > 0 /\ exc = "none") =>
        \A i \in 0..(self.n - self.num_docs) :
            IsMumWindow(self, i) =>
                \E k \in DOMAIN mums : mums[k] = <<i, i + self.num_docs>>

\* the ranks i with bwt[i] = c
Occurrences(s, c) == {i \in DOMAIN s.bwt : s.bwt[i] = c}

\* C22: for every alphabet character c, thresholds[c] marks every row
\* before the first occurrence of c in bwt 'v' and every row after the last
\* occurrence '^'
C22_ThresholdsOutsideRuns ==
    self.built =>
        \A c \in Elems(self.alphabet) :
            /\ Occurrences(self, c) # {}
            /\ DOMAIN self.thresholds[c] = 0..(self.n - 1)
            /\ \A i \in 0..(self.n - 1) :
                /\ (\A o \in Occurrences(self, c) : i < o) =>
                       self.thresholds[c][i] = "v"
                /\ (\A o \in Occurrences(self, c) : i > o) =>
                       self.thresholds[c][i] = "^"

\* C22 witness: a suite with a character that has rows before its first
\* and after its last occurrence in bwt, and a gap in between
C22_Witness ==
    /\ self.built
    /\ \E c \in Elems(self.alphabet) :
        \E i, j, k \in 0..(self.n - 1) :
            /\ \A o \in Occurrences(self, c) : i < o
            /\ \A o \in Occurrences(self, c) : k > o
            /\ j \notin Occurrences(self, c)
            /\ \E o, p \in Occurrences(self, c) : o < j /\ j < p

\* the minimum of lcps[lo..hi]
MinOf(a, lo, hi) ==
    CHOOSE m \in {a[x] : x \in lo..hi} : \A x \in lo..hi : m <= a[x]

\* C23: for a list of m >= 1 values thresholds_in_gap returns m - 1
\* classifications, the one at position k being '=', 'v' or '^' as
\* min(lcps[0..k]) is equal to, below or above min(lcps[k..m-1]); for the
\* empty list it returns an empty list and an empty summary
C23_GapClassification ==
    gap_ret.called =>
        LET m == Len0(gap_lcps)
        IN  /\ gap_ret.exc = "none"
            /\ (m = 0 => (gap_ret.thresh = Empty /\ gap_ret.rl = Empty))
            /\ (m >= 1 =>
                   /\ DOMAIN gap_ret.thresh = 0..(m - 2)
                   /\ \A k \in 0..(m - 2) :
                       LET fw == MinOf(gap_lcps, 0, k)
                           bw == MinOf(gap_lcps, k, m - 1)
                       IN  gap_ret.thresh[k] =
                               IF fw = bw THEN "="
                               ELSE IF fw < bw THEN "v" ELSE "^")

\* C23 witness: a call that returned all three classifications
C23_Witness ==
    /\ gap_ret.called
    /\ gap_ret.exc = "none"
    /\ \E i, j, k \in DOMAIN gap_ret.thresh :
        /\ gap_ret.thresh[i] = "^"
        /\ gap_ret.thresh[j] = "="
        /\ gap_ret.thresh[k] = "v"

\* C25: the keys of thresholds are the characters of alphabet; for every
\* such c, thresholds[c] has n entries among ' ', '=', '^', 'v', and entry i
\* is ' ' exactly when bwt[i] = c
C25_ThresholdsAligned ==
    self.built =>
        /\ DOMAIN self.thresholds = Elems(self.alphabet)
        /\ Elems(self.alphabet) = Elems(t)
        /\ \A c \in DOMAIN self.thresholds :
            /\ DOMAIN self.thresholds[c] = 0..(self.n - 1)
            /\ \A i \in 0..(self.n - 1) :
                /\ self.thresholds[c][i] \in {" ", "=", "^", "v"}
                /\ (self.thresholds[c][i] = " ") <=> (self.bwt[i] = c)

\* C25 witness: a suite where some character has a gap between two runs in
\* bwt, so that thresholds_in_gap filled part of its list
C25_Witness ==
    /\ self.built
    /\ \E c \in Elems(self.alphabet) :
        \E o, j, p \in 0..(self.n - 1) :
            /\ o < j /\ j < p
            /\ self.bwt[o] = c /\ self.bwt[j] # c /\ self.bwt[p] = c
            /\ self.thresholds[c][j] \in {"=", "^", "v"}

\* C24: once the suite is built no step changes the text or any field of
\* the suite, and a repeated call of find_mums returns what the previous
\* call returned
C24_SuiteNeverMutated ==
    [][/\ self.built => (self' = self /\ t' = t)
       /\ (self.built /\ calls >= 1 /\ calls' = calls + 1) =>
              (mums' = mums /\ exc' = exc)]_vars

\* C24 witness: find_mums has been called twice on a suite and has returned
\* a non-empty list
C24_Witness ==
    /\ self.built
    /\ calls = 2
    /\ exc = "none"
    /\ mums # Empty

\* C26: on every constructed suite num_docs >= 1 and every entry of da is
\* in 0..num_docs-1
C26_DaWithinDocuments ==
    self.built =>
        /\ self.num_docs >= 1
        /\ \A i \in 0..(self.n - 1) :
            /\ self.da[i] >= 0
            /\ self.da[i] <= self.num_docs - 1

\* C27: on every constructed suite find_mums returns without raising, and
\* returns an empty list when num_docs <= 1
C27_FindMumsNeverRaises ==
    (self.built /\ calls > 0) =>
        /\ exc = "none"
        /\ (self.num_docs <= 1 => mums = Empty)

====
